---- MODULE Spec2Model ----
(***************************************************************************)
(* Model of mock_server.py: a FastAPI application with two handlers,       *)
(* list_models (GET /v1/models) and chat_completions                       *)
(* (POST /v1/chat/completions), one asyncio event loop, and a logger with  *)
(* two sinks (mock_server.log and the console).                            *)
(*                                                                         *)
(* Text is a sequence of atoms (indivisible pieces of a string); the atom  *)
(* "\n" is the line break.  Substring containment is containment of a      *)
(* contiguous run of atoms.  A literal that is not ASCII is written by its  *)
(* code points (U+672AU+63D0U+4F9B is the "not provided" default).         *)
(*                                                                         *)
(* The handler is modelled statement by statement; the event loop lets     *)
(* another coroutine run only where the running one awaits.                *)
(***************************************************************************)
EXTENDS Integers, Sequences, FiniteSets, TLC

\* ------------------------------------------------------------------ bounds
MaxReqs == 2
MaxTime == 1
MaxSinkFailures == 1

Reqs == 1..MaxReqs
NoReq == 0

\* ------------------------------------------------------------------ state
VARIABLES
    listening,      \* uvicorn.run is serving (the process is alive and bound)
    now,            \* the clock, in seconds
    running,        \* the request whose coroutine holds the event loop, or NoReq
    pc,             \* per request: where its handler stands
    route,          \* per request: "models" or "chat"
    raw,            \* per request: the body on the wire
    body,           \* per request: the handler's local `body`
    current_time,   \* per request: the handler's local `current_time`
    status,         \* per request: the HTTP status sent, 0 while none is
    payload,        \* per request: the JSON sent with a 200
    log,            \* the logger's calls in order, each with the sinks it reached
    sinkFailures    \* how many sink writes have failed

vars == <<listening, now, running, pc, route, raw, body, current_time, status,
          payload, log, sinkFailures>>

\* ------------------------------------------------------------------ text
RECURSIVE Concat(_)
Concat(ts) == IF ts = <<>> THEN <<>> ELSE Head(ts) \o Concat(Tail(ts))

Contains(t, sub) ==
    \E i \in 0..(Len(t) - Len(sub)) : SubSeq(t, i + 1, i + Len(sub)) = sub

Occurrences(t, sub) ==
    Cardinality({i \in 0..(Len(t) - Len(sub)) : SubSeq(t, i + 1, i + Len(sub)) = sub})

\* The lines of a text: the runs of atoms between line breaks.
Lines(t) ==
    LET brk == SelectSeq([i \in 1..Len(t) |-> i], LAMBDA i : t[i] = "\n")
    IN  [k \in 1..(Len(brk) + 1) |->
            SubSeq(t, IF k = 1 THEN 1 ELSE brk[k - 1] + 1,
                      IF k = Len(brk) + 1 THEN Len(t) ELSE brk[k] - 1)]

NonBlank(ls) == SelectSeq(ls, LAMBDA l : l # <<>>)

\* ------------------------------------------------------------------ JSON values
\* A field value: t is its JSON type, s its JSON text (for a string, the
\* characters of the string).  Absent marks a key the object does not have.
Absent == [t |-> "absent", s |-> <<>>]
JNull == [t |-> "null", s |-> <<"null">>]
JBool(b) == [t |-> "bool", s |-> IF b THEN <<"true">> ELSE <<"false">>]
JNum(n) == [t |-> "num", s |-> <<ToString(n)>>]
JStr(text) == [t |-> "str", s |-> text]

KeyOrder == <<"api_key", "conversation_id", "model", "stream">>
Keys == {KeyOrder[i] : i \in 1..Len(KeyOrder)}

NoFields == [k \in Keys |-> Absent]

\* A request body as it is on the wire.  t is "malformed" for text that is
\* not JSON, else the type of the top-level JSON value; obj holds the fields
\* of an object, arr the elements of an array, txt the text of a string,
\* number, boolean or null.
Malformed == [t |-> "malformed", obj |-> NoFields, arr |-> <<>>, txt |-> <<"{", "oops">>]
NoBodySent == [t |-> "empty", obj |-> NoFields, arr |-> <<>>, txt |-> <<>>]
TopNull == [t |-> "null", obj |-> NoFields, arr |-> <<>>, txt |-> <<"null">>]
TopNum == [t |-> "num", obj |-> NoFields, arr |-> <<>>, txt |-> <<"5">>]
TopStr(text) == [t |-> "str", obj |-> NoFields, arr |-> <<>>, txt |-> text]
TopArr(elems) == [t |-> "array", obj |-> NoFields, arr |-> elems, txt |-> <<>>]
TopObj(fields) == [t |-> "object", obj |-> fields, arr |-> <<>>, txt |-> <<>>]

Fields(a, c, m, x) ==
    [k \in Keys |-> CASE k = "api_key" -> a
                      [] k = "conversation_id" -> c
                      [] k = "model" -> m
                      [] OTHER -> x]

ObjectBodies ==
    {TopObj(NoFields),
     TopObj(Fields(JStr(<<"sk-test">>), JStr(<<"conv-1">>), JStr(<<"gpt-x">>), Absent)),
     TopObj(Fields(JNull, JBool(TRUE), JNull, Absent)),
     TopObj(Fields(Absent, JStr(<<"conv-1">>), JNum(7), Absent)),
     TopObj(Fields(JStr(<<"sk-test">>), Absent, Absent, JBool(FALSE)))}

NonObjectBodies ==
    {TopNull, TopNum,
     TopStr(<<"hello">>), TopStr(<<"my ", "api_key">>),
     TopArr(<<>>), TopArr(<<JStr(<<"api_key">>)>>)}

Bodies == ObjectBodies \cup NonObjectBodies \cup {Malformed}

ModelsInputs == {NoBodySent, Malformed}

IsObject(b) == b.t = "object"

\* ------------------------------------------------------------------ Python values
\* str(v), as an f-string formats a parsed JSON value: a string is shown as
\* it is, null as None, true and false as True and False.
\* Variant of PyStr: every value shown as its JSON text.
PyStrAsJson(v) == v.s

PyStr(v) ==
    CASE v.t = "str" -> v.s
      [] v.t = "null" -> <<"None">>
      [] v.t = "bool" -> IF v.s = <<"true">> THEN <<"True">> ELSE <<"False">>
      [] OTHER -> v.s

\* `key in body` raises TypeError when body is None, a bool or a number.
InRaises(b) == b.t \in {"null", "bool", "num"}

\* `key in body`: a key of a dict, an element of a list, a substring of a str.
PyIn(key, b) ==
    CASE b.t = "object" -> b.obj[key] # Absent
      [] b.t = "array" -> \E i \in 1..Len(b.arr) : b.arr[i] = JStr(<<key>>)
      [] b.t = "str" -> Contains(b.txt, <<key>>)
      [] OTHER -> FALSE

\* `body[key]` with a str key raises TypeError on a list and on a str.
SubscriptRaises(b) == b.t # "object"

Subscript(b, key) == b.obj[key]

\* `body.get(...)` raises AttributeError on anything but a dict.
\* Variant of GetRaises: a lookup that tolerates any body.
GetRaisesNever(b) == FALSE

GetRaises(b) == b.t # "object"

\* Variant of Get: `body.get(key) or default`, which also replaces null.
GetOrNone(b, key, default) ==
    IF b.obj[key] = Absent \/ b.obj[key] = JNull THEN default ELSE b.obj[key]

Get(b, key, default) ==
    IF b.obj[key] = Absent THEN default ELSE b.obj[key]

\* json.dumps of one value inside a container.
DumpValue(v) == IF v.t = "str" THEN <<"\"">> \o v.s \o <<"\"">> ELSE v.s

RECURSIVE DumpItems(_)
DumpItems(items) ==
    IF items = <<>> THEN <<>>
    ELSE <<"  ">> \o Head(items)
         \o (IF Len(items) > 1 THEN <<",", "\n">> ELSE <<>>)
         \o DumpItems(Tail(items))

PresentKeys(b) == SelectSeq(KeyOrder, LAMBDA k : b.obj[k] # Absent)

Member(b, k) == <<"\"", k, "\"", ": ">> \o DumpValue(b.obj[k])

\* json.dumps(body, indent=2, ensure_ascii=False)
JsonDump(b) ==
    CASE b.t = "object" ->
            IF PresentKeys(b) = <<>> THEN <<"{}">>
            ELSE <<"{", "\n">>
                 \o DumpItems([i \in 1..Len(PresentKeys(b)) |-> Member(b, PresentKeys(b)[i])])
                 \o <<"\n", "}">>
      [] b.t = "array" ->
            IF b.arr = <<>> THEN <<"[]">>
            ELSE <<"[", "\n">>
                 \o DumpItems([i \in 1..Len(b.arr) |-> DumpValue(b.arr[i])])
                 \o <<"\n", "]">>
      [] b.t = "str" -> <<"\"">> \o b.txt \o <<"\"">>
      [] OTHER -> b.txt

\* ------------------------------------------------------------------ log messages
SeparatorLen == 60
separator == [i \in 1..SeparatorLen |-> "="]

Fmt2(x) == IF x < 10 THEN <<"0", ToString(x)>> ELSE <<ToString(x)>>

\* time.strftime('%H:%M:%S') of a clock that counts seconds.
StrfTime(n) ==
    Fmt2((n \div 3600) % 24) \o <<":">> \o Fmt2((n \div 60) % 60) \o <<":">> \o Fmt2(n % 60)

OpenMsg == <<"\n">> \o separator
BannerMsg(t) == <<"[">> \o t \o <<"] U+6536U+5230U+8BF7U+6C42U+FF01">>
FoundMsg(key, v) ==
    <<"U+2705 U+6210U+529FU+68C0U+6D4BU+5230U+5B57U+6BB5 '", key, "': ">> \o PyStr(v)
MissingMsg(key) ==
    <<"U+274C U+672AU+68C0U+6D4BU+5230 '", key, "' U+5B57U+6BB5U+FF01">>
DumpHeader == <<"U+5B8CU+6574U+8BF7U+6C42U+4F53 Body:">>
DumpMsg(b) == DumpHeader \o <<"\n">> \o JsonDump(b)
CloseMsg == separator \o <<"\n">>

PortNumber == 9090
StartupMsg1 ==
    <<"U+6B63U+5728U+542FU+52A8U+6A21U+62DFU+670DU+52A1U+5668U+FF0CU+76D1U+542CU+7AEFU+53E3 ",
      ToString(PortNumber), "...">>
StartupMsg2 ==
    <<"U+65E5U+5FD7U+5C06U+5B9EU+65F6U+4FDDU+5B58U+5230U+5F53U+524DU+76EEU+5F55U+4E0BU+7684 ",
      "'mock_server.log'", " U+6587U+4EF6U+4E2DU+3002">>

\* ------------------------------------------------------------------ responses
ListModelsCreated == 1686935002

\* Variant of ListModelsResponse: the descriptor stamped with the clock.
ListModelsResponseNow ==
    [object |-> "list",
     data |-> <<[id |-> "test-model-1", object |-> "model",
                 created |-> now, owned_by |-> "custom"]>>]

ListModelsResponse ==
    [object |-> "list",
     data |-> <<[id |-> "test-model-1", object |-> "model",
                 created |-> ListModelsCreated, owned_by |-> "custom"]>>]

DefaultModel == JStr(<<"test-model-1">>)
NotProvided == <<"U+672AU+63D0U+4F9B">>
Greeting == <<"U+4F60U+597DU+FF01U+6211U+5DF2U+7ECFU+6536U+5230U+4E86U+4F60U+7684U+8BF7U+6C42U+3002">>

Content(b) ==
    Greeting
    \o <<"\n", "- ", "api_key", ": ">> \o PyStr(Get(b, "api_key", JStr(NotProvided)))
    \o <<"\n", "- ", "conversation_id", ": ">>
    \o PyStr(Get(b, "conversation_id", JStr(NotProvided)))

ChatResponse(b, t) ==
    [id |-> "chatcmpl-mock",
     object |-> "chat.completion",
     created |-> t,
     model |-> Get(b, "model", DefaultModel),
     choices |-> <<[index |-> 0,
                    message |-> [role |-> "assistant", content |-> Content(b)],
                    finish_reason |-> "stop"]>>,
     usage |-> [prompt_tokens |-> 10, completion_tokens |-> 20, total_tokens |-> 30]]

NoPayload == [object |-> "none"]
NoBody == [t |-> "none", obj |-> NoFields, arr |-> <<>>, txt |-> <<>>]

\* ------------------------------------------------------------------ the event loop
\* A coroutine gives up the event loop only where it awaits: chat_completions
\* awaits once, at `await request.json()`; a handler not yet started or
\* already returned holds nothing.
\* Variant of Suspended: a handler that may be preempted at every statement.
SuspendedAnywhere(p) == TRUE

Suspended(p) == p \in {"idle", "start", "json", "done"}

CanRun(r) == listening /\ running \in {NoReq, r}

\* Variant of NextPc: the closing separator is skipped.
NextPcNoClose(p) ==
    CASE p = "json" -> "open"
      [] p = "open" -> "banner"
      [] p = "banner" -> "api_key"
      [] p = "api_key" -> "conversation_id"
      [] p = "conversation_id" -> "dump"
      [] p = "dump" -> "return"
      [] p = "close" -> "return"
      [] OTHER -> "done"

\* Variant of NextPc: conversation_id is examined before api_key.
NextPcSwapped(p) ==
    CASE p = "json" -> "open"
      [] p = "open" -> "banner"
      [] p = "banner" -> "conversation_id"
      [] p = "conversation_id" -> "api_key"
      [] p = "api_key" -> "dump"
      [] p = "dump" -> "close"
      [] p = "close" -> "return"
      [] OTHER -> "done"

\* The statement that follows p in chat_completions.
NextPc(p) ==
    CASE p = "json" -> "open"
      [] p = "open" -> "banner"
      [] p = "banner" -> "api_key"
      [] p = "api_key" -> "conversation_id"
      [] p = "conversation_id" -> "dump"
      [] p = "dump" -> "close"
      [] p = "close" -> "return"
      [] OTHER -> "done"

\* Variant of ServerSurvivesException: the process ends with the exception.
ServerStopsOnException == FALSE

\* An exception that leaves a handler: the application answers 500 and goes
\* on serving.
ServerSurvivesException == TRUE

Advance(r) ==
    /\ pc' = [pc EXCEPT ![r] = NextPc(pc[r])]
    /\ running' = IF Suspended(NextPc(pc[r])) THEN NoReq ELSE r
    /\ UNCHANGED <<listening, status, payload>>

Raise(r) ==
    /\ pc' = [pc EXCEPT ![r] = "done"]
    /\ running' = NoReq
    /\ status' = [status EXCEPT ![r] = 500]
    /\ listening' = ServerSurvivesException
    /\ UNCHANGED payload

\* ------------------------------------------------------------------ the logger
\* Variant of EmitOutcome: a failed write raises out of logger.info.
EmitOutcomePropagating(file, console) == IF file /\ console THEN "ok" ELSE "raise"

\* A handler whose write fails reports it through logging's handleError and
\* returns: logger.info never raises because a sink failed.
EmitOutcome(file, console) == "ok"

Failed(ok) == IF ok THEN 0 ELSE 1

\* logger.info(msg): one record offered to the file handler, then to the
\* console handler; each write succeeds or fails on its own.
Info(r, msg, file, console) ==
    /\ sinkFailures + Failed(file) + Failed(console) <= MaxSinkFailures
    /\ sinkFailures' = sinkFailures + Failed(file) + Failed(console)
    /\ log' = Append(log, [req |-> r, msg |-> msg, file |-> file, console |-> console])

\* ------------------------------------------------------------------ actions
Init ==
    /\ listening = FALSE
    /\ now = 0
    /\ running = NoReq
    /\ pc = [r \in Reqs |-> "idle"]
    /\ route = [r \in Reqs |-> "none"]
    /\ raw = [r \in Reqs |-> NoBody]
    /\ body = [r \in Reqs |-> NoBody]
    /\ current_time = [r \in Reqs |-> <<>>]
    /\ status = [r \in Reqs |-> 0]
    /\ payload = [r \in Reqs |-> NoPayload]
    /\ log = <<>>
    /\ sinkFailures = 0

\* The __main__ block: two startup lines, then uvicorn.run.
Startup ==
    /\ ~listening
    /\ log = <<>>
    /\ \E f1, c1, f2, c2 \in BOOLEAN :
          /\ sinkFailures + Failed(f1) + Failed(c1) + Failed(f2) + Failed(c2)
                <= MaxSinkFailures
          /\ sinkFailures' =
                sinkFailures + Failed(f1) + Failed(c1) + Failed(f2) + Failed(c2)
          /\ log' = <<[req |-> NoReq, msg |-> StartupMsg1, file |-> f1, console |-> c1],
                      [req |-> NoReq, msg |-> StartupMsg2, file |-> f2, console |-> c2]>>
    /\ listening' = TRUE
    /\ UNCHANGED <<now, running, pc, route, raw, body, current_time, status, payload>>

Tick ==
    /\ now < MaxTime
    /\ now' = now + 1
    /\ UNCHANGED <<listening, running, pc, route, raw, body, current_time, status,
                   payload, log, sinkFailures>>

\* A client sends request r.  Requests are numbered in the order they arrive.
Arrive(r) ==
    /\ listening
    /\ pc[r] = "idle"
    /\ \A q \in Reqs : q < r => pc[q] # "idle"
    /\ \E rt \in {"models", "chat"} :
          /\ route' = [route EXCEPT ![r] = rt]
          /\ \E b \in (IF rt = "chat" THEN Bodies ELSE ModelsInputs) :
                raw' = [raw EXCEPT ![r] = b]
    /\ pc' = [pc EXCEPT ![r] = "start"]
    /\ UNCHANGED <<listening, now, running, body, current_time, status, payload, log,
                   sinkFailures>>

\* list_models
ListModels(r) ==
    /\ CanRun(r)
    /\ pc[r] = "start"
    /\ route[r] = "models"
    /\ status' = [status EXCEPT ![r] = 200]
    /\ payload' = [payload EXCEPT ![r] = ListModelsResponse]
    /\ pc' = [pc EXCEPT ![r] = "done"]
    /\ running' = NoReq
    /\ UNCHANGED <<listening, now, route, raw, body, current_time, log, sinkFailures>>

\* chat_completions is entered and suspends at `await request.json()`.
ChatBegin(r) ==
    /\ CanRun(r)
    /\ pc[r] = "start"
    /\ route[r] = "chat"
    /\ pc' = [pc EXCEPT ![r] = "json"]
    /\ running' = NoReq
    /\ UNCHANGED <<listening, now, route, raw, body, current_time, status, payload, log,
                   sinkFailures>>

\* `body = await request.json()` resumes: json.loads raises on text that is
\* not JSON and returns the value otherwise, whatever its type.
ChatJson(r) ==
    /\ CanRun(r)
    /\ pc[r] = "json"
    /\ IF raw[r].t = "malformed"
       THEN Raise(r) /\ UNCHANGED body
       ELSE Advance(r) /\ body' = [body EXCEPT ![r] = raw[r]]
    /\ UNCHANGED <<now, route, raw, current_time, log, sinkFailures>>

\* separator, current_time and logger.info(f"\n{separator}")
ChatOpen(r) ==
    /\ CanRun(r)
    /\ pc[r] = "open"
    /\ current_time' = [current_time EXCEPT ![r] = StrfTime(now)]
    /\ \E f, c \in BOOLEAN :
          /\ Info(r, OpenMsg, f, c)
          /\ IF EmitOutcome(f, c) = "raise" THEN Raise(r) ELSE Advance(r)
    /\ UNCHANGED <<now, route, raw, body>>

\* logger.info(f"[{current_time}] ...")
ChatBanner(r) ==
    /\ CanRun(r)
    /\ pc[r] = "banner"
    /\ \E f, c \in BOOLEAN :
          /\ Info(r, BannerMsg(current_time[r]), f, c)
          /\ IF EmitOutcome(f, c) = "raise" THEN Raise(r) ELSE Advance(r)
    /\ UNCHANGED <<now, route, raw, body, current_time>>

\* `if key in body: logger.info(found) else: logger.info(missing)`
ChatKey(r, key) ==
    /\ CanRun(r)
    /\ pc[r] = key
    /\ IF InRaises(body[r]) \/ (PyIn(key, body[r]) /\ SubscriptRaises(body[r]))
       THEN Raise(r) /\ UNCHANGED <<log, sinkFailures>>
       ELSE \E f, c \in BOOLEAN :
               /\ Info(r, IF PyIn(key, body[r]) THEN FoundMsg(key, Subscript(body[r], key))
                                                ELSE MissingMsg(key), f, c)
               /\ IF EmitOutcome(f, c) = "raise" THEN Raise(r) ELSE Advance(r)
    /\ UNCHANGED <<now, route, raw, body, current_time>>

ChatApiKey(r) == ChatKey(r, "api_key")

ChatConversationId(r) == ChatKey(r, "conversation_id")

\* logger.info(f"... Body:\n{json.dumps(body, indent=2, ensure_ascii=False)}")
ChatDump(r) ==
    /\ CanRun(r)
    /\ pc[r] = "dump"
    /\ \E f, c \in BOOLEAN :
          /\ Info(r, DumpMsg(body[r]), f, c)
          /\ IF EmitOutcome(f, c) = "raise" THEN Raise(r) ELSE Advance(r)
    /\ UNCHANGED <<now, route, raw, body, current_time>>

\* logger.info(f"{separator}\n")
ChatClose(r) ==
    /\ CanRun(r)
    /\ pc[r] = "close"
    /\ \E f, c \in BOOLEAN :
          /\ Info(r, CloseMsg, f, c)
          /\ IF EmitOutcome(f, c) = "raise" THEN Raise(r) ELSE Advance(r)
    /\ UNCHANGED <<now, route, raw, body, current_time>>

\* `return {...}`: the dict is built field by field; body.get raises on a
\* body that is not a dict.
ChatReturn(r) ==
    /\ CanRun(r)
    /\ pc[r] = "return"
    /\ IF GetRaises(body[r])
       THEN Raise(r)
       ELSE /\ status' = [status EXCEPT ![r] = 200]
            /\ payload' = [payload EXCEPT ![r] = ChatResponse(body[r], now)]
            /\ pc' = [pc EXCEPT ![r] = NextPc(pc[r])]
            /\ running' = NoReq
            /\ UNCHANGED listening
    /\ UNCHANGED <<now, route, raw, body, current_time, log, sinkFailures>>

Next ==
    \/ Startup
    \/ Tick
    \/ \E r \in Reqs :
          \/ Arrive(r)
          \/ ListModels(r)
          \/ ChatBegin(r)
          \/ ChatJson(r)
          \/ ChatOpen(r)
          \/ ChatBanner(r)
          \/ ChatApiKey(r)
          \/ ChatConversationId(r)
          \/ ChatDump(r)
          \/ ChatClose(r)
          \/ ChatReturn(r)

Spec == Init /\ [][Next]_vars

\* ------------------------------------------------------------------ observations
EntriesOf(r) == SelectSeq(log, LAMBDA e : e.req = r)

MsgsOf(r) == [i \in 1..Len(EntriesOf(r)) |-> EntriesOf(r)[i].msg]

\* Whether a logger call reached a sink; "emitted" stands for the call itself.
Reached(e, sink) ==
    CASE sink = "file" -> e.file
      [] sink = "console" -> e.console
      [] OTHER -> TRUE

ReachedOf(r, sink) == SelectSeq(EntriesOf(r), LAMBDA e : Reached(e, sink))

\* What request r has put into a sink: each message followed by the
\* handler's terminator, a line break.
RecordText(r, sink) ==
    Concat([i \in 1..Len(ReachedOf(r, sink)) |-> ReachedOf(r, sink)[i].msg \o <<"\n">>])

RecordLines(r, sink) == NonBlank(Lines(RecordText(r, sink)))

NoFailure(r, sink) == Len(ReachedOf(r, sink)) = Len(EntriesOf(r))

SinkFailed(r) == \E i \in 1..Len(EntriesOf(r)) : ~EntriesOf(r)[i].file \/ ~EntriesOf(r)[i].console

Sep60 == [i \in 1..60 |-> "="]

Chat(r) == route[r] = "chat"
Done(r) == pc[r] = "done"
InFlight(r) == pc[r] \notin {"idle", "done"}
BadBody(r) == Chat(r) /\ ~IsObject(raw[r])
GoodBody(r) == Chat(r) /\ IsObject(raw[r])
ContentOf(r) == payload[r].choices[1].message.content

HandlerStep(r) ==
    \/ ListModels(r)
    \/ ChatBegin(r)
    \/ ChatJson(r)
    \/ ChatOpen(r)
    \/ ChatBanner(r)
    \/ ChatApiKey(r)
    \/ ChatConversationId(r)
    \/ ChatDump(r)
    \/ ChatClose(r)
    \/ ChatReturn(r)

\* ------------------------------------------------------------------ claims

\* C1: a chat request whose body is malformed JSON or a JSON value that is
\* not an object puts no line of a diagnostic block into the log.
C1_NoLogForBadBody == \A r \in Reqs : BadBody(r) => EntriesOf(r) = <<>>

\* C2: a chat request whose body is malformed JSON or a JSON value that is
\* not an object is answered with a status outside 2xx and never with a
\* 200 payload; no response payload is constructed for it.
C2_BadBodyNon2xx ==
    \A r \in Reqs :
        BadBody(r) =>
            /\ payload[r] = NoPayload
            /\ status[r] = 0 \/ status[r] >= 300
            /\ Done(r) => status[r] >= 300

C2_Witness ==
    \E r, q \in Reqs :
        /\ Done(r) /\ Chat(r) /\ raw[r] = Malformed /\ status[r] = 500
        /\ Done(q) /\ Chat(q) /\ raw[q] = TopArr(<<>>) /\ status[q] = 500

\* C3: a chat request whose body is a JSON object B is answered 200 with a
\* model field equal to B["model"] when B has that key, whatever the value,
\* and equal to "test-model-1" when it has not.
C3_ModelEcho ==
    \A r \in Reqs :
        (GoodBody(r) /\ Done(r)) =>
            /\ status[r] = 200
            /\ payload[r].model =
                  IF raw[r].obj["model"] # Absent THEN raw[r].obj["model"]
                  ELSE JStr(<<"test-model-1">>)

C3_Witness ==
    \E r, q \in Reqs :
        /\ GoodBody(r) /\ Done(r) /\ raw[r].obj["model"] = JNull /\ payload[r].model = JNull
        /\ GoodBody(q) /\ Done(q) /\ raw[q].obj["model"] = Absent /\ status[q] = 200

\* The JSON value itself as text: the characters of a string, the JSON
\* literal of anything else.
ValueText(v) == v.s

\* How the message shows a value: a string by its characters, a number by
\* its digits, null as None, true and false as True and False.
Shown(v) ==
    CASE v.t = "null" -> <<"None">>
      [] v.t = "bool" -> IF v = JBool(TRUE) THEN <<"True">> ELSE <<"False">>
      [] OTHER -> v.s

BothKeys == {"api_key", "conversation_id"}

AbsentKeys(r) == {k \in BothKeys : raw[r].obj[k] = Absent}

\* C4 as stated: the assistant message's content contains B["api_key"] when
\* B has that key and the not-provided literal when it has not, and likewise
\* for conversation_id.
C4_ContentContainsValue ==
    \A r \in Reqs :
        (GoodBody(r) /\ Done(r)) =>
            \A k \in BothKeys :
                Contains(ContentOf(r),
                         IF raw[r].obj[k] # Absent THEN ValueText(raw[r].obj[k])
                         ELSE NotProvided)

\* C4 amended: the content contains, for each of api_key and
\* conversation_id, the value as Python formats it (a string's characters, a
\* number's digits, None for null, True or False for a boolean) when B has
\* the key and the not-provided literal when it has not; the literal occurs
\* once per absent key, so twice for an empty object.
C4_ContentShowsValue ==
    \A r \in Reqs :
        (GoodBody(r) /\ Done(r)) =>
            /\ \A k \in BothKeys :
                  Contains(ContentOf(r),
                           <<"- ", k, ": ">> \o
                           (IF raw[r].obj[k] # Absent THEN Shown(raw[r].obj[k])
                            ELSE NotProvided))
            /\ Occurrences(ContentOf(r), NotProvided) = Cardinality(AbsentKeys(r))

C4_Witness ==
    \E r, q \in Reqs :
        /\ GoodBody(r) /\ Done(r) /\ raw[r].obj["api_key"] = JNull
        /\ Contains(ContentOf(r), <<"None">>)
        /\ GoodBody(q) /\ Done(q) /\ raw[q] = TopObj(NoFields)
        /\ Occurrences(ContentOf(q), NotProvided) = 2

\* C5: when a chat request has its 200 response, the six items of its
\* diagnostic block, from the opening to the closing separator, have all
\* been handed to the log sinks already.
C5_LogThenRespond ==
    \A r \in Reqs :
        (Chat(r) /\ status[r] = 200) =>
            /\ Len(EntriesOf(r)) = 6
            /\ MsgsOf(r)[1] = <<"\n">> \o Sep60
            /\ MsgsOf(r)[6] = Sep60 \o <<"\n">>

C5_Witness ==
    \E r \in Reqs : Chat(r) /\ status[r] = 200 /\ Len(EntriesOf(r)) = 6 /\ ~SinkFailed(r)

\* C6: between the opening separator and the closing separator of one
\* request's block no line of another request's handler appears in the log.
C6_BlocksContiguous ==
    \A i, k \in 1..Len(log) :
        (/\ i < k
         /\ log[i].req # NoReq
         /\ log[i].req = log[k].req
         /\ log[i].msg = OpenMsg
         /\ log[k].msg = CloseMsg) =>
            \A j \in i..k : log[j].req = log[i].req

\* Two requests in flight together: the one that arrived second has its
\* whole block in the log before the first one's block.
C6_Witness ==
    \E i, k \in 1..Len(log) :
        /\ i < k
        /\ log[i].req = 2 /\ log[i].msg = CloseMsg
        /\ log[k].req = 1 /\ log[k].msg = CloseMsg

\* C7: a write to the log file or to the console that fails while a chat
\* request with an object body is handled does not reach the caller: the
\* request still ends with its 200 payload and the server keeps serving.
C7_SinkFailureHarmless ==
    \A r \in Reqs :
        (GoodBody(r) /\ SinkFailed(r)) =>
            /\ listening
            /\ status[r] \in {0, 200}
            /\ Done(r) => (status[r] = 200 /\ payload[r] # NoPayload
                           /\ payload[r].object = "chat.completion")

C7_Witness ==
    \E r \in Reqs :
        /\ GoodBody(r) /\ Done(r) /\ status[r] = 200
        /\ \E i \in 1..Len(EntriesOf(r)) : ~EntriesOf(r)[i].file

\* The response a request gets when it is the only one.
AnsweredAlone(r) ==
    CASE route[r] = "models" ->
            status[r] = 200 /\ payload[r] = ListModelsResponse
      [] GoodBody(r) ->
            /\ status[r] = 200
            /\ [payload[r] EXCEPT !.created = 0] = ChatResponse(raw[r], 0)
      [] OTHER -> status[r] = 500 /\ payload[r] = NoPayload

\* C8: a failing request ends only itself: once started the server stays
\* listening, a request in flight can always go on (the event loop is never
\* left held by a finished handler), and every finished request has the
\* response it would have had alone.
C8_ErrorsAreLocal ==
    /\ log # <<>> => listening
    /\ running # NoReq => InFlight(running)
    /\ \A r \in Reqs :
          /\ (InFlight(r) /\ running \in {NoReq, r}) => ENABLED HandlerStep(r)
          /\ Done(r) => AnsweredAlone(r)

C8_Witness ==
    \E r, q, p \in Reqs :
        /\ Done(r) /\ Chat(r) /\ status[r] = 500 /\ EntriesOf(r) # <<>>
        /\ Done(q) /\ Chat(q) /\ status[q] = 200
        /\ \E i, k \in 1..Len(log) : i < k /\ log[i].req = r /\ log[k].req = q

\* C9: GET /v1/models is answered 200 with the same list of one descriptor
\* (test-model-1, model, 1686935002, custom) whatever was sent and whenever,
\* and handling it puts nothing into the log.
C9_ListModelsFixed ==
    \A r \in Reqs :
        route[r] = "models" =>
            /\ EntriesOf(r) = <<>>
            /\ Done(r) =>
                  /\ status[r] = 200
                  /\ payload[r] =
                        [object |-> "list",
                         data |-> <<[id |-> "test-model-1", object |-> "model",
                                     created |-> 1686935002, owned_by |-> "custom"]>>]

C9_Witness ==
    \E r, q \in Reqs :
        /\ r # q
        /\ route[r] = "models" /\ Done(r) /\ raw[r] = Malformed
        /\ route[q] = "models" /\ Done(q) /\ raw[q] = NoBodySent
        /\ now > 0

\* The lines of the block of a request with object body B.
BlockLines(r) ==
    <<Sep60,
      <<"[">> \o current_time[r] \o <<"] U+6536U+5230U+8BF7U+6C42U+FF01">>,
      IF raw[r].obj["api_key"] # Absent
         THEN FoundMsg("api_key", raw[r].obj["api_key"]) ELSE MissingMsg("api_key"),
      IF raw[r].obj["conversation_id"] # Absent
         THEN FoundMsg("conversation_id", raw[r].obj["conversation_id"])
         ELSE MissingMsg("conversation_id"),
      DumpHeader>>
    \o Lines(JsonDump(raw[r]))
    \o <<Sep60>>

\* C10: a chat request with a JSON object body B puts exactly one block
\* into the log, its lines in this order: 60 '=' characters, the banner with
\* the time, the api_key line, the conversation_id line, the body dump, 60
\* '=' characters; a key's line is the found line with the value when B has
\* the key and the missing line when it has not.  A sink holds the whole
\* block unless one of its writes failed.
C10_BlockShape ==
    \A r \in Reqs :
        (GoodBody(r) /\ Done(r)) =>
            /\ RecordLines(r, "emitted") = BlockLines(r)
            /\ NoFailure(r, "file") => RecordLines(r, "file") = BlockLines(r)
            /\ NoFailure(r, "console") => RecordLines(r, "console") = BlockLines(r)

C10_Witness ==
    \E r \in Reqs :
        /\ GoodBody(r) /\ Done(r) /\ ~SinkFailed(r)
        /\ raw[r].obj["api_key"] # Absent
        /\ raw[r].obj["conversation_id"] = Absent
        /\ Len(RecordLines(r, "file")) > 6
====
